---- MODULE Spec2Model ----
(***************************************************************************)
(* A model of editor.py: the immutable Buffer / Window / Cursor values,    *)
(* the State that aggregates them, and the key-dispatch loop of main().    *)
(*                                                                         *)
(* Text is a sequence of one-character strings; a Buffer's lines is a      *)
(* sequence of such sequences.  Python's 0-based rows and columns are kept *)
(* as they are; only the indexing into TLA+ sequences adds one.            *)
(***************************************************************************)
EXTENDS Integers, Sequences, FiniteSets, TLC

----------------------------------------------------------------------------
(* Bounds of the model *)

\* number of editing keys (text, line-break, delete, backspace) per run
MaxEdits == 2

\* length of the file contents enumerated for the load/save round trip
MaxFileLen == 4

----------------------------------------------------------------------------
(* Characters *)

NL == "\n"
CR == "\r"
FF == "\f"

\* str.isspace() on the characters of the model
SpaceChars == {" "}

\* re.match(r'\w', c) on the characters of the model
WordChars == {"a", "b", "c", "d", "e", "x"}

\* every other character of the model, "." among them, is punctuation

isspace(c) == c \in SpaceChars

isword(c) == c \in WordChars

----------------------------------------------------------------------------
(* Python helpers *)

Min(a, b) == IF a <= b THEN a ELSE b

Max(a, b) == IF a >= b THEN a ELSE b

\* s[i:j] for 0 <= i, j (Python slices clamp to the length of s)
Slice(s, i, j) == SubSeq(s, i + 1, Min(j, Len(s)))

\* tuple comparison (r1, c1) < (r2, c2)
TupleLess(r1, c1, r2, c2) == r1 < r2 \/ (r1 = r2 /\ c1 < c2)

\* seq[index] raises IndexError outside -len .. len-1
InRange(seq, index) == index >= -Len(seq) /\ index < Len(seq)

\* seq[index], a negative index counting from the end
At(seq, index) == IF index >= 0 THEN seq[index + 1] ELSE seq[Len(seq) + index + 1]

RECURSIVE Join(_)
\* '\n'.join(lines)
Join(ls) ==
    IF ls = <<>> THEN <<>>
    ELSE IF Len(ls) = 1 THEN ls[1]
    ELSE ls[1] \o <<NL>> \o Join(Tail(ls))

RECURSIVE UniversalNewlines(_)
\* open(filename) reads in text mode: "\r\n" and "\r" arrive as "\n"
UniversalNewlines(bytes) ==
    IF bytes = <<>> THEN <<>>
    ELSE IF bytes[1] = CR
         THEN IF Len(bytes) >= 2 /\ bytes[2] = NL
              THEN <<NL>> \o UniversalNewlines(Tail(Tail(bytes)))
              ELSE <<NL>> \o UniversalNewlines(Tail(bytes))
         ELSE <<bytes[1]>> \o UniversalNewlines(Tail(bytes))

\* the line boundaries of str.splitlines() among the characters of the model
LineBoundaries == {NL, CR, FF}

RECURSIVE SplitFrom(_, _, _)
SplitFrom(text, cur, acc) ==
    IF text = <<>>
    THEN IF cur = <<>> THEN acc ELSE Append(acc, cur)
    ELSE IF text[1] = CR /\ Len(text) >= 2 /\ text[2] = NL
         THEN SplitFrom(Tail(Tail(text)), <<>>, Append(acc, cur))
         ELSE IF text[1] \in LineBoundaries
              THEN SplitFrom(Tail(text), <<>>, Append(acc, cur))
              ELSE SplitFrom(Tail(text), Append(cur, text[1]), acc)

\* str.splitlines(): no empty last line after a final boundary
splitlines(text) == SplitFrom(text, <<>>, <<>>)

----------------------------------------------------------------------------
(* class Buffer *)

FileName == "file"

Buffer(lines, filename, modified) ==
    [lines |-> lines, filename |-> filename, modified |-> modified]

from_file(bytes) == Buffer(splitlines(UniversalNewlines(bytes)), FileName, FALSE)

Buffer_len(self) == Len(self.lines)

Buffer_bottom(self) == Buffer_len(self) - 1

\* Buffer.insert that forgets modified=True
Buffer_insert_unflagged(self, cursor, string) ==
    LET current == At(self.lines, cursor.row)
        new_line == Slice(current, 0, cursor.col) \o string
                        \o Slice(current, cursor.col, Len(current))
    IN  [self EXCEPT !.lines = [self.lines EXCEPT ![cursor.row + 1] = new_line]]

Buffer_insert(self, cursor, string) ==
    LET current == At(self.lines, cursor.row)
        new_line == Slice(current, 0, cursor.col) \o string
                        \o Slice(current, cursor.col, Len(current))
    IN  [self EXCEPT !.lines = [self.lines EXCEPT ![cursor.row + 1] = new_line],
                     !.modified = TRUE]

\* Buffer.split whose second line starts one character late: current[col + 1:]
Buffer_split_late(self, cursor) ==
    LET row == cursor.row
        col == cursor.col
        current == At(self.lines, row)
    IN  [self EXCEPT !.lines = SubSeq(self.lines, 1, row)
                                  \o << Slice(current, 0, col),
                                        Slice(current, col + 1, Len(current)) >>
                                  \o SubSeq(self.lines, row + 2, Len(self.lines)),
                     !.modified = TRUE]

Buffer_split(self, cursor) ==
    LET row == cursor.row
        col == cursor.col
        current == At(self.lines, row)
    IN  [self EXCEPT !.lines = SubSeq(self.lines, 1, row)
                                  \o << Slice(current, 0, col),
                                        Slice(current, col, Len(current)) >>
                                  \o SubSeq(self.lines, row + 2, Len(self.lines)),
                     !.modified = TRUE]

\* Buffer.delete that sets modified=True at the final position too
Buffer_delete_marks_unchanged(self, cursor) ==
    LET row == cursor.row
        col == cursor.col
        current == At(self.lines, row)
    IN  IF TupleLess(row, col, Buffer_bottom(self), Len(current))
        THEN IF col < Len(current)
             THEN [self EXCEPT !.lines = [self.lines EXCEPT ![row + 1] =
                                  Slice(current, 0, col)
                                      \o Slice(current, col + 1, Len(current))],
                               !.modified = TRUE]
             ELSE [self EXCEPT !.lines = SubSeq(self.lines, 1, row)
                                  \o << current \o At(self.lines, row + 1) >>
                                  \o SubSeq(self.lines, row + 3, Len(self.lines)),
                               !.modified = TRUE]
        ELSE [self EXCEPT !.modified = TRUE]

\* Buffer.delete that never merges: the comparison is on the column alone
Buffer_delete_no_merge(self, cursor) ==
    LET row == cursor.row
        col == cursor.col
        current == At(self.lines, row)
    IN  IF col < Len(current)
        THEN [self EXCEPT !.lines = [self.lines EXCEPT ![row + 1] =
                             Slice(current, 0, col)
                                 \o Slice(current, col + 1, Len(current))],
                          !.modified = TRUE]
        ELSE self

Buffer_delete(self, cursor) ==
    LET row == cursor.row
        col == cursor.col
        current == At(self.lines, row)
    IN  IF TupleLess(row, col, Buffer_bottom(self), Len(current))
        THEN IF col < Len(current)
             THEN [self EXCEPT !.lines = [self.lines EXCEPT ![row + 1] =
                                  Slice(current, 0, col)
                                      \o Slice(current, col + 1, Len(current))],
                               !.modified = TRUE]
             ELSE [self EXCEPT !.lines = SubSeq(self.lines, 1, row)
                                  \o << current \o At(self.lines, row + 1) >>
                                  \o SubSeq(self.lines, row + 3, Len(self.lines)),
                               !.modified = TRUE]
        ELSE self

\* what save() writes to the file
SaveBytes(self) == Join(self.lines) \o (IF self.lines # <<>> THEN <<NL>> ELSE <<>>)

\* Buffer.save that writes the file and leaves the modified flag as it is
Buffer_save_keeps_flag(self) == self

Buffer_save(self) == [self EXCEPT !.modified = FALSE]

----------------------------------------------------------------------------
(* class Cursor *)

Cursor(row, col, col_hint) == [row |-> row, col |-> col, col_hint |-> col_hint]

set_col(self, col) == [self EXCEPT !.col = col, !.col_hint = col]

\* clamp_col without the min: the column hint is taken as it is
clamp_col_no_min(self, buffer) ==
    IF self.col_hint # self.col THEN [self EXCEPT !.col = self.col_hint] ELSE self

clamp_col(self, buffer) ==
    LET new_col == Min(self.col_hint, Len(At(buffer.lines, self.row)))
    IN  IF new_col # self.col THEN [self EXCEPT !.col = new_col] ELSE self

Cursor_up(self, buffer) ==
    IF self.row > 0
    THEN clamp_col([self EXCEPT !.row = self.row - 1], buffer)
    ELSE self

Cursor_down(self, buffer) ==
    IF self.row < Buffer_bottom(buffer)
    THEN clamp_col([self EXCEPT !.row = self.row + 1], buffer)
    ELSE self

\* Cursor.left that wraps to the start, not the end, of the previous line
Cursor_left_wraps_to_start(self, buffer) ==
    IF self.col > 0
    THEN set_col(self, self.col - 1)
    ELSE IF self.row > 0
         THEN Cursor(self.row - 1, 0, 0)
         ELSE self

Cursor_left(self, buffer) ==
    IF self.col > 0
    THEN set_col(self, self.col - 1)
    ELSE IF self.row > 0
         THEN LET new_row == self.row - 1
                  new_col == Len(At(buffer.lines, new_row))
              IN  Cursor(new_row, new_col, new_col)
         ELSE self

Cursor_right(self, buffer) ==
    IF self.col < Len(At(buffer.lines, self.row))
    THEN set_col(self, self.col + 1)
    ELSE IF self.row < Buffer_bottom(buffer)
         THEN Cursor(self.row + 1, 0, 0)
         ELSE self

RECURSIVE SkipLeft(_, _, _)
\* while col > 0 and line[col - 1] in class: col -= 1
SkipLeft(line, col, class) ==
    IF col > 0 /\ line[col] \in class THEN SkipLeft(line, col - 1, class) ELSE col

RECURSIVE SkipRight(_, _, _)
\* while col < len(line) and line[col] in class: col += 1
SkipRight(line, col, class) ==
    IF col < Len(line) /\ line[col + 1] \in class
    THEN SkipRight(line, col + 1, class)
    ELSE col

\* the characters of a line that are neither whitespace nor word characters
OtherChars(line) == {line[i] : i \in 1..Len(line)} \ (SpaceChars \cup WordChars)

word_left(self, buffer) ==
    LET line == At(buffer.lines, self.row)
        col1 == SkipLeft(line, self.col, SpaceChars)
        col2 == IF col1 > 0 /\ isword(line[col1])
                THEN SkipLeft(line, col1, WordChars)
                ELSE IF col1 > 0
                     THEN SkipLeft(line, col1, OtherChars(line))
                     ELSE col1
    IN  set_col(self, col2)

\* word_right without the first loop: whitespace is not skipped
word_right_keeps_space(self, buffer) ==
    LET line == At(buffer.lines, self.row)
        col1 == self.col
        col2 == IF col1 < Len(line) /\ isword(line[col1 + 1])
                THEN SkipRight(line, col1, WordChars)
                ELSE IF col1 < Len(line)
                     THEN SkipRight(line, col1, OtherChars(line))
                     ELSE col1
    IN  set_col(self, col2)

word_right(self, buffer) ==
    LET line == At(buffer.lines, self.row)
        col1 == SkipRight(line, self.col, SpaceChars)
        col2 == IF col1 < Len(line) /\ isword(line[col1 + 1])
                THEN SkipRight(line, col1, WordChars)
                ELSE IF col1 < Len(line)
                     THEN SkipRight(line, col1, OtherChars(line))
                     ELSE col1
    IN  set_col(self, col2)

beginning_of_line(self) == set_col(self, 0)

end_of_line(self, buffer) == set_col(self, Len(At(buffer.lines, self.row)))

----------------------------------------------------------------------------
(* class Window *)

LeftMargin == 5

RightMargin == 2

Window(nrows, ncols, row, col) ==
    [nrows |-> nrows, ncols |-> ncols, row |-> row, col |-> col]

Window_bottom(self) == self.row + self.nrows - 1

\* Window.up that scrolls by a row whenever the cursor is above the window
Window_up_while_above(self, cursor) ==
    IF cursor.row < self.row /\ self.row > 0
    THEN [self EXCEPT !.row = self.row - 1]
    ELSE self

Window_up(self, cursor) ==
    IF cursor.row = self.row - 1 /\ self.row > 0
    THEN [self EXCEPT !.row = self.row - 1]
    ELSE self

\* Window.down that waits one row too long before it scrolls
Window_down_late(self, buffer, cursor) ==
    IF cursor.row = Window_bottom(self) + 2 /\ Window_bottom(self) < Buffer_bottom(buffer)
    THEN [self EXCEPT !.row = self.row + 1]
    ELSE self

Window_down(self, buffer, cursor) ==
    IF cursor.row = Window_bottom(self) + 1 /\ Window_bottom(self) < Buffer_bottom(buffer)
    THEN [self EXCEPT !.row = self.row + 1]
    ELSE self

translate(self, cursor) == << cursor.row - self.row, cursor.col - self.col >>

horizontal_scroll(self, cursor) ==
    LET n_pages == cursor.col \div (self.ncols - RightMargin)
        new_col == Max(n_pages * self.ncols - RightMargin - LeftMargin, 0)
    IN  IF new_col # self.col THEN [self EXCEPT !.col = new_col] ELSE self

\* page_up and page_down return the pair (new_window, new_cursor)
page_up(self, buffer, cursor) ==
    LET new_cursor == clamp_col([cursor EXCEPT !.row = Max(0, cursor.row - self.nrows)],
                                buffer)
        new_window == IF new_cursor.row < self.row
                      THEN [self EXCEPT !.row = Max(0, self.row - self.nrows)]
                      ELSE self
    IN  << new_window, new_cursor >>

page_down(self, buffer, cursor) ==
    LET new_cursor == clamp_col([cursor EXCEPT !.row =
                                    Min(Buffer_bottom(buffer), cursor.row + self.nrows)],
                                buffer)
        new_window == IF new_cursor.row > Window_bottom(self)
                      THEN [self EXCEPT !.row =
                               Min(Buffer_bottom(buffer) - self.nrows + 1,
                                   self.row + self.nrows)]
                      ELSE self
    IN  << new_window, new_cursor >>

----------------------------------------------------------------------------
(* class State, and the two module-level transitions *)

State(buffer, window, cursor) == [buffer |-> buffer, window |-> window, cursor |-> cursor]

\* right() without the horizontal scroll
right_no_horizontal_scroll(state) ==
    LET cursor == Cursor_right(state.cursor, state.buffer)
        window == Window_down(state.window, state.buffer, cursor)
    IN  [state EXCEPT !.cursor = cursor, !.window = window]

right(state) ==
    LET cursor == Cursor_right(state.cursor, state.buffer)
        window == horizontal_scroll(Window_down(state.window, state.buffer, cursor), cursor)
    IN  [state EXCEPT !.cursor = cursor, !.window = window]

left(state) ==
    LET cursor == Cursor_left(state.cursor, state.buffer)
        window == horizontal_scroll(Window_up(state.window, cursor), cursor)
    IN  [state EXCEPT !.cursor = cursor, !.window = window]

RECURSIVE RightTimes(_, _)
\* for _ in k: state = right(state)
RightTimes(state, n) == IF n = 0 THEN state ELSE RightTimes(right(state), n - 1)

----------------------------------------------------------------------------
(* Inputs: the file that is opened, the terminal, the keys *)

\* the file contents the editor is started on
Files ==
    { << "a", "b", "c", NL, "d", "e", NL >>,
      << " ", ".", NL, NL, "b", NL >>,
      << >> }

\* curses.LINES and curses.COLS
Terminals == { << 2, 4 >> }

\* a key that no branch of main() handles is inserted as text, a key name
\* such as KEY_DC included
KeyText ==
    [ x |-> << "x" >> ]

TextKeys == DOMAIN KeyText

----------------------------------------------------------------------------
(* main(): the loop variables *)

VARIABLES
    state,      \* main's state: State(buffer, window, cursor)
    pc,         \* "load" before from_file, "running" in the loop, "quit" and
                \* "force_quit" after the two sys.exit(0), "error" after an
                \* uncaught exception
    disk,       \* the contents of the file args.filename
    original,   \* history: the contents from_file read
    edits,      \* history: the number of editing keys read
    dirty,      \* history: the lines changed since the load or the last save
    before      \* history: the editing key handled last and the State it was
                \* read in (NoEdit when the last key was no editing key)

vars == << state, pc, disk, original, edits, dirty, before >>

\* the value of state while there is no State: before main builds it and
\* after the process has ended
NoState == State(Buffer(<< >>, "", FALSE), Window(0, 0, 0, 0), Cursor(0, 0, 0))

NoEdit == [op |-> "", text |-> << >>, state |-> NoState]

\* main holds a State
Alive == pc \in {"running", "error"}

\* main, lines 268-272
Startup(bytes, term) ==
    State(from_file(bytes), Window(term[1], term[2], 0, 0), Cursor(0, 0, 0))

Init ==
    /\ \E bytes \in Files, term \in Terminals :
          /\ disk = bytes
          /\ original = bytes
          /\ state = Startup(bytes, term)
    /\ pc = "running"
    /\ edits = 0
    /\ dirty = FALSE
    /\ before = NoEdit

\* buffer[row] raises IndexError
RowRaises(buffer, row) == ~InRange(buffer.lines, row)

\* One pass of the loop on a key that is neither quit nor force-quit: the
\* branch either raises (the exception leaves main) or replaces state.
Handle(raises, new_state) ==
    /\ pc = "running"
    /\ IF raises
       THEN /\ pc' = "error"
            /\ state' = state
            /\ dirty' = dirty
       ELSE /\ pc' = pc
            /\ state' = new_state
            /\ dirty' = (dirty \/ new_state.buffer.lines # state.buffer.lines)
    /\ UNCHANGED << disk, original >>

\* a key that moves the cursor
Move(raises, new_state) ==
    /\ Handle(raises, new_state)
    /\ before' = NoEdit
    /\ UNCHANGED edits

\* a key that edits the buffer
Edit(raises, new_state) ==
    /\ edits < MaxEdits
    /\ Handle(raises, new_state)
    /\ edits' = edits + 1

----------------------------------------------------------------------------
(* main(): the branches of the loop *)

\* sys.exit(0) ends the process: main's locals are gone, the file stays
Exit(at) ==
    /\ pc' = at
    /\ state' = NoState
    /\ before' = NoEdit
    /\ UNCHANGED << disk, original, edits, dirty >>

\* Ctrl-q, lines 278-282
Quit ==
    /\ pc = "running"
    /\ IF state.buffer.modified
       THEN UNCHANGED vars
       ELSE Exit("quit")

\* Ctrl-x, lines 283-284
ForceQuit ==
    /\ pc = "running"
    /\ Exit("force_quit")

\* lines 286-289
on_up(s) ==
    LET cursor == Cursor_up(s.cursor, s.buffer)
        window == horizontal_scroll(Window_up(s.window, cursor), cursor)
    IN  [s EXCEPT !.cursor = cursor, !.window = window]

\* KEY_UP or Ctrl-p
KeyUp ==
    Move(state.cursor.row > 0 /\ RowRaises(state.buffer, state.cursor.row - 1),
         on_up(state))

\* lines 291-294
on_down(s) ==
    LET cursor == Cursor_down(s.cursor, s.buffer)
        window == horizontal_scroll(Window_down(s.window, s.buffer, cursor), cursor)
    IN  [s EXCEPT !.cursor = cursor, !.window = window]

\* KEY_DOWN or Ctrl-n
KeyDown ==
    Move(state.cursor.row < Buffer_bottom(state.buffer)
            /\ RowRaises(state.buffer, state.cursor.row + 1),
         on_down(state))

\* buffer[row] is read by Cursor.left only at column 0 below row 0
LeftRaises(s) ==
    s.cursor.col <= 0 /\ s.cursor.row > 0 /\ RowRaises(s.buffer, s.cursor.row - 1)

\* KEY_LEFT or Ctrl-b, lines 295-296
KeyLeft == Move(LeftRaises(state), left(state))

\* KEY_RIGHT or Ctrl-f, lines 297-298
KeyRight ==
    Move(RowRaises(state.buffer, state.cursor.row), right(state))

\* lines 300-302 and 308-310
on_word_left(s) ==
    LET cursor == word_left(s.cursor, s.buffer)
    IN  [s EXCEPT !.cursor = cursor, !.window = horizontal_scroll(s.window, cursor)]

\* Ctrl-Left or Ctrl-w
WordLeft ==
    Move(RowRaises(state.buffer, state.cursor.row), on_word_left(state))

\* lines 304-306 and 312-314
on_word_right(s) ==
    LET cursor == word_right(s.cursor, s.buffer)
    IN  [s EXCEPT !.cursor = cursor, !.window = horizontal_scroll(s.window, cursor)]

\* Ctrl-Right or Ctrl-z
WordRight ==
    Move(RowRaises(state.buffer, state.cursor.row), on_word_right(state))

\* lines 316-318
on_beginning_of_line(s) ==
    LET cursor == beginning_of_line(s.cursor)
    IN  [s EXCEPT !.cursor = cursor, !.window = horizontal_scroll(s.window, cursor)]

\* Ctrl-a
BeginningOfLine == Move(FALSE, on_beginning_of_line(state))

\* lines 320-322
on_end_of_line(s) ==
    LET cursor == end_of_line(s.cursor, s.buffer)
    IN  [s EXCEPT !.cursor = cursor, !.window = horizontal_scroll(s.window, cursor)]

\* Ctrl-e
EndOfLine ==
    Move(RowRaises(state.buffer, state.cursor.row), on_end_of_line(state))

\* lines 324-325
on_save(s) == [s EXCEPT !.buffer = Buffer_save(s.buffer)]

\* Ctrl-s: Buffer.save writes the file when the buffer has a filename
Save ==
    /\ pc = "running"
    /\ disk' = IF state.buffer.filename # "" THEN SaveBytes(state.buffer) ELSE disk
    /\ state' = on_save(state)
    /\ dirty' = FALSE
    /\ before' = NoEdit
    /\ UNCHANGED << pc, original, edits >>

\* lines 327-329
on_page_up(s) ==
    LET wc == page_up(s.window, s.buffer, s.cursor)
    IN  [s EXCEPT !.cursor = wc[2], !.window = horizontal_scroll(wc[1], wc[2])]

\* KEY_PPAGE
PageUp ==
    Move(RowRaises(state.buffer, Max(0, state.cursor.row - state.window.nrows)),
         on_page_up(state))

\* lines 331-333
on_page_down(s) ==
    LET wc == page_down(s.window, s.buffer, s.cursor)
    IN  [s EXCEPT !.cursor = wc[2], !.window = horizontal_scroll(wc[1], wc[2])]

\* KEY_NPAGE
PageDown ==
    Move(RowRaises(state.buffer,
                   Min(Buffer_bottom(state.buffer),
                       state.cursor.row + state.window.nrows)),
         on_page_down(state))

\* lines 335-337
on_line_break(s) == right([s EXCEPT !.buffer = Buffer_split(s.buffer, s.cursor)])

\* "\n"
LineBreak ==
    /\ Edit(RowRaises(state.buffer, state.cursor.row), on_line_break(state))
    /\ before' = [op |-> "line-break", text |-> << >>, state |-> state]

\* lines 339-340
on_delete(s) == [s EXCEPT !.buffer = Buffer_delete(s.buffer, s.cursor)]

\* KEY_DELETE or Ctrl-d
Delete ==
    /\ Edit(RowRaises(state.buffer, state.cursor.row), on_delete(state))
    /\ before' = [op |-> "delete", text |-> << >>, state |-> state]

\* lines 342-345
on_backspace(s) ==
    IF TupleLess(0, 0, s.cursor.row, s.cursor.col)
    THEN on_delete(left(s))
    ELSE s

\* KEY_BACKSPACE or DEL
Backspace ==
    /\ Edit(TupleLess(0, 0, state.cursor.row, state.cursor.col)
               /\ (LeftRaises(state) \/ RowRaises(state.buffer, left(state).cursor.row)),
            on_backspace(state))
    /\ before' = IF before.op = "text"
                 THEN [before EXCEPT !.op = "text,backspace"]
                 ELSE [op |-> "backspace", text |-> << >>, state |-> state]

\* lines 347-350
on_text(s, string) ==
    RightTimes([s EXCEPT !.buffer = Buffer_insert(s.buffer, s.cursor, string)],
               Len(string))

\* any other key
InsertText ==
    \E key \in TextKeys :
        /\ Edit(RowRaises(state.buffer, state.cursor.row),
                on_text(state, KeyText[key]))
        /\ before' = [op |-> "text", text |-> KeyText[key], state |-> state]

Next ==
    \/ Quit
    \/ ForceQuit
    \/ KeyUp
    \/ KeyDown
    \/ KeyLeft
    \/ KeyRight
    \/ WordLeft
    \/ WordRight
    \/ BeginningOfLine
    \/ EndOfLine
    \/ Save
    \/ PageUp
    \/ PageDown
    \/ LineBreak
    \/ Delete
    \/ Backspace
    \/ InsertText

Spec == Init /\ [][Next]_vars

----------------------------------------------------------------------------
(* Loading a file and saving it at once *)

\* the characters of the enumerated file contents
FileChars == {"a", NL, CR, FF}

FileContents == UNION { [1..n -> FileChars] : n \in 0..MaxFileLen }

InitLoad ==
    /\ disk \in FileContents
    /\ original = << >>
    /\ state = NoState
    /\ pc = "load"
    /\ edits = 0
    /\ dirty = FALSE
    /\ before = NoEdit

\* main, lines 268-272
Load ==
    /\ pc = "load"
    /\ \E term \in Terminals : state' = Startup(disk, term)
    /\ original' = disk
    /\ pc' = "running"
    /\ UNCHANGED << disk, edits, dirty, before >>

NextRoundTrip ==
    \/ Load
    \/ Save

SpecRoundTrip == InitLoad /\ [][NextRoundTrip]_vars

----------------------------------------------------------------------------
(* Buffer.split and Buffer.delete called one after the other *)

\* number of lines and length of a line of the enumerated buffers
MaxBufLines == 2

MaxLineLen == 2

BufChars == {"a", "b"}

BufLine == UNION { [1..n -> BufChars] : n \in 0..MaxLineLen }

BufLines == UNION { [1..n -> BufLine] : n \in 1..MaxBufLines }

InitBuffer ==
    /\ \E lines \in BufLines :
          \E row \in 0..(Len(lines) - 1) :
             \E col \in 0..Len(lines[row + 1]) :
                state = State(Buffer(lines, FileName, FALSE),
                              Window(2, 4, 0, 0), Cursor(row, col, col))
    /\ pc = "call_split"
    /\ disk = << >>
    /\ original = << >>
    /\ edits = 0
    /\ dirty = FALSE
    /\ before = NoEdit

\* buffer = buffer.split(cursor)
CallSplit ==
    /\ pc = "call_split"
    /\ state' = [state EXCEPT !.buffer = Buffer_split(state.buffer, state.cursor)]
    /\ before' = [op |-> "split", text |-> << >>, state |-> state]
    /\ pc' = "call_delete"
    /\ UNCHANGED << disk, original, edits, dirty >>

\* buffer = buffer.delete(cursor)
CallDelete ==
    /\ pc = "call_delete"
    /\ state' = [state EXCEPT !.buffer = Buffer_delete(state.buffer, state.cursor)]
    /\ pc' = "returned"
    /\ UNCHANGED << disk, original, edits, dirty, before >>

NextSplitDelete ==
    \/ CallSplit
    \/ CallDelete

SpecSplitDelete == InitBuffer /\ [][NextSplitDelete]_vars

----------------------------------------------------------------------------
(* The word-left and word-right branches on enumerated lines *)

\* length of the enumerated lines
MaxWordLineLen == 4

\* a word character, a whitespace character, a punctuation character
WordLineChars == {"a", " ", "."}

WordLine == UNION { [1..n -> WordLineChars] : n \in 0..MaxWordLineLen }

\* the buffers: an enumerated line above or below the line "a"
WordBuffers == { << line, << "a" >> >> : line \in WordLine }
                  \cup { << << "a" >>, line >> : line \in WordLine }

InitWords ==
    /\ \E lines \in WordBuffers :
          \E row \in 0..1 :
             \E col \in 0..Len(lines[row + 1]) :
                LET cursor == Cursor(row, col, col)
                IN  /\ state = State(Buffer(lines, FileName, FALSE),
                                     horizontal_scroll(Window(2, 4, 0, 0), cursor),
                                     cursor)
                    /\ disk = SaveBytes(Buffer(lines, FileName, FALSE))
                    /\ original = disk
    /\ pc = "call_word"
    /\ edits = 0
    /\ dirty = FALSE
    /\ before = NoEdit

\* main, lines 300-302 and 308-310
CallWordLeft ==
    /\ pc = "call_word"
    /\ state' = on_word_left(state)
    /\ before' = [op |-> "word-left", text |-> << >>, state |-> state]
    /\ UNCHANGED << pc, disk, original, edits, dirty >>

\* main, lines 304-306 and 312-314
CallWordRight ==
    /\ pc = "call_word"
    /\ state' = on_word_right(state)
    /\ before' = [op |-> "word-right", text |-> << >>, state |-> state]
    /\ UNCHANGED << pc, disk, original, edits, dirty >>

NextWords ==
    \/ CallWordLeft
    \/ CallWordRight

SpecWords == InitWords /\ [][NextWords]_vars

----------------------------------------------------------------------------
(* clamp_col, horizontal_scroll, Window.up and Window.down on enumerated *)
(* buffers, cursors and windows                                          *)

\* the largest column, column hint and line length that are enumerated
MaxClampCol == 3

\* a line of n characters
LineOfLen(n) == [j \in 1..n |-> "a"]

\* buffers of two lines
ClampBuffers == [1..2 -> { LineOfLen(n) : n \in 0..MaxClampCol }]

\* cursors on a row of these buffers, at any column and with any hint
ClampCursors ==
    { Cursor(row, col, col_hint) :
        row \in 0..1, col \in 0..MaxClampCol, col_hint \in 0..MaxClampCol }

\* windows of one or two rows, three columns wide, at any offset
ClampWindows ==
    { Window(nrows, 3, row, col) : nrows \in 1..2, row \in 0..2, col \in 0..2 }

InitClamp ==
    /\ \E lines \in ClampBuffers, cursor \in ClampCursors, window \in ClampWindows :
          state = State(Buffer(lines, FileName, FALSE), window, cursor)
    /\ pc = "call_clamp"
    /\ disk = << >>
    /\ original = << >>
    /\ edits = 0
    /\ dirty = FALSE
    /\ before = NoEdit

\* what a call leaves behind: the operation and the State it was called in
Called(op) ==
    /\ pc = "call_clamp"
    /\ before' = [op |-> op, text |-> << >>, state |-> state]
    /\ UNCHANGED << pc, disk, original, edits, dirty >>

\* cursor = cursor.clamp_col(buffer)
CallClampCol ==
    /\ Called("clamp_col")
    /\ state' = [state EXCEPT !.cursor = clamp_col(state.cursor, state.buffer)]

\* window = window.horizontal_scroll(cursor)
CallHorizontalScroll ==
    /\ Called("horizontal_scroll")
    /\ state' = [state EXCEPT !.window = horizontal_scroll(state.window, state.cursor)]

\* window = window.up(cursor)
CallWindowUp ==
    /\ Called("Window.up")
    /\ state' = [state EXCEPT !.window = Window_up(state.window, state.cursor)]

\* window = window.down(buffer, cursor)
CallWindowDown ==
    /\ Called("Window.down")
    /\ state' = [state EXCEPT !.window =
                     Window_down(state.window, state.buffer, state.cursor)]

NextClamp ==
    \/ CallClampCol
    \/ CallHorizontalScroll
    \/ CallWindowUp
    \/ CallWindowDown

SpecClamp == InitClamp /\ [][NextClamp]_vars

----------------------------------------------------------------------------
(* Properties *)

\* the file that was opened has at least one line: splitlines() gives a line
\* for every content but the empty one
LoadedLines == original # << >>

\* C1: over a loaded buffer with at least one line, after any sequence of
\* commands the cursor is on a line of the buffer and at a column of that
\* line: 0 <= row <= bottom and 0 <= col <= len(lines[row]).
CursorInBounds ==
    (Alive /\ LoadedLines) =>
        /\ 0 <= state.cursor.row
        /\ state.cursor.row <= Buffer_bottom(state.buffer)
        /\ 0 <= state.cursor.col
        /\ state.cursor.col <= Len(At(state.buffer.lines, state.cursor.row))

\* C1 witness: text has just been typed at the end of the last line of a
\* buffer of several lines, so the cursor stands on both upper bounds
CursorAtEndOfBuffer ==
    /\ pc = "running"
    /\ before.op = "text"
    /\ state.cursor.row = Buffer_bottom(state.buffer)
    /\ state.cursor.row > 0
    /\ state.cursor.col = Len(At(state.buffer.lines, state.cursor.row))
    /\ state.cursor.col > 1

\* C2: over a loaded buffer with at least one line the cursor row is always
\* one of the window's rows: window.row <= cursor.row <= window.row + nrows - 1.
CursorRowInWindow ==
    (Alive /\ LoadedLines) =>
        /\ state.window.row <= state.cursor.row
        /\ state.cursor.row <= state.window.row + state.window.nrows - 1

\* C2 witness: a line-break typed on the last visible row has scrolled the
\* window by one row
LineBreakScrolled ==
    /\ pc = "running"
    /\ before.op = "line-break"
    /\ before.state.cursor.row = Window_bottom(before.state.window)
    /\ state.window.row = before.state.window.row + 1
    /\ state.cursor.row = Window_bottom(state.window)

\* C3: the screen position translate(cursor) of the cursor is always inside
\* the window: 0 <= screen row < nrows and 0 <= screen column < ncols.
CursorOnScreen ==
    (Alive /\ LoadedLines) =>
        LET screen == translate(state.window, state.cursor)
        IN  /\ 0 <= screen[1] /\ screen[1] < state.window.nrows
            /\ 0 <= screen[2] /\ screen[2] < state.window.ncols

\* the scenario of the horizontal scroll: 10 rows, 20 columns, column 45
HorizontalOffsetScenario ==
    horizontal_scroll(Window(10, 20, 0, 0), Cursor(0, 45, 45)).col = 33

\* C4: in every state the horizontal offset is the one the formula gives for
\* the cursor column: window.col = max((col div (ncols - 2)) * ncols - 2 - 5, 0),
\* which is 33 for ncols = 20 and col = 45.
HorizontalOffsetFormula ==
    /\ Alive =>
          state.window.col =
              Max((state.cursor.col \div (state.window.ncols - 2))
                      * state.window.ncols - 2 - 5, 0)
    /\ HorizontalOffsetScenario

\* C4 witness: a typed character has moved the cursor onto a later horizontal
\* page, and the offset has followed
TypedOntoNextPage ==
    /\ pc = "running"
    /\ before.op = "text"
    /\ before.state.window.col = 0
    /\ state.window.col > 0

\* C5: quit never ends the editor while the buffer is modified (the state
\* stays as it is and the loop goes on), it ends it when the buffer is not
\* modified, force-quit ends it from every state, and so the editor is never
\* ended by quit while an edit is unsaved.
QuitOnlyWhenSaved ==
    /\ pc = "running" =>
          /\ ENABLED Quit
          /\ ~ENABLED (Quit /\ ~(IF state.buffer.modified
                                  THEN vars' = vars
                                  ELSE pc' = "quit"))
          /\ ENABLED ForceQuit
          /\ ~ENABLED (ForceQuit /\ pc' # "force_quit")
    /\ pc = "quit" => ~dirty

\* C5 witness: the editor was ended by quit after an edit and a later save
QuitAfterEditAndSave ==
    /\ pc = "quit"
    /\ edits >= 1
    /\ disk # original
    /\ ~dirty

\* a file content that is empty or ends with a single newline
EndsWithOneNewline(bytes) ==
    \/ bytes = << >>
    \/ /\ bytes[Len(bytes)] = NL
       /\ Len(bytes) = 1 \/ bytes[Len(bytes) - 1] # NL

\* C6: a file that is empty or ends with a single newline, loaded and saved
\* with no edit in between, is written back with its original bytes; what is
\* written is the lines joined by a newline, and a final newline iff there is
\* a line.
RoundTripExact ==
    /\ (pc = "running" /\ edits = 0 /\ EndsWithOneNewline(original)) => disk = original
    /\ (pc = "running" /\ ~dirty /\ disk # original) =>
          disk = Join(state.buffer.lines)
                    \o (IF Len(state.buffer.lines) >= 1 THEN << NL >> ELSE << >>)

\* the one-character texts
OneCharTexts == { KeyText[key] : key \in { t \in TextKeys : Len(KeyText[t]) = 1 } }

\* s2 has the lines and the cursor position of s1
SameTextAndPosition(s1, s2) ==
    /\ s2.buffer.lines = s1.buffer.lines
    /\ s2.cursor.row = s1.cursor.row
    /\ s2.cursor.col = s1.cursor.col

\* C7: in every reachable state, typing one character and then delete-backward
\* gives back the lines and the cursor position (row, col) from before the
\* character.
InsertThenBackspaceRestores ==
    /\ pc = "running" =>
          \A text \in OneCharTexts :
              /\ ~RowRaises(state.buffer, state.cursor.row)
              /\ SameTextAndPosition(state, on_backspace(on_text(state, text)))
    /\ before.op = "text" => pc = "running"
    /\ (before.op = "text,backspace" /\ Len(before.text) = 1) =>
          /\ pc = "running"
          /\ SameTextAndPosition(before.state, state)

\* C7 on the buffers that have a line: the same statement, for the states
\* whose file had at least one line
InsertThenBackspaceRestoresLines ==
    LoadedLines => InsertThenBackspaceRestores

\* C8: for every buffer and every valid cursor in it, split at the cursor and
\* then delete at the same cursor gives the original lines.
SplitThenDeleteRestores ==
    pc = "returned" => state.buffer.lines = before.state.buffer.lines

\* C8 witness: a line of a buffer of two lines was split inside and merged
SplitInsideMerged ==
    /\ pc = "returned"
    /\ before.op = "split"
    /\ Len(state.buffer.lines) = 2
    /\ state.cursor.col > 0
    /\ state.cursor.col < Len(At(state.buffer.lines, state.cursor.row))

\* the lines of s with line r replaced by its two parts before and from
\* column c, written index by index
LinesBrokenAt(s, r, c) ==
    LET lines == s.buffer.lines
        line == lines[r + 1]
    IN  [i \in 1..(Len(lines) + 1) |->
            IF i <= r THEN lines[i]
            ELSE IF i = r + 1 THEN [j \in 1..c |-> line[j]]
            ELSE IF i = r + 2 THEN [j \in 1..(Len(line) - c) |-> line[c + j]]
            ELSE lines[i - 1]]

\* s2 is s1 after a line-break
LineBroken(s1, s2) ==
    /\ s2.buffer.lines = LinesBrokenAt(s1, s1.cursor.row, s1.cursor.col)
    /\ s2.cursor = Cursor(s1.cursor.row + 1, 0, 0)

AbcDe == << << "a", "b", "c" >>, << "d", "e" >> >>

\* the scenario of the line-break: ["abc","de"] at (0,3)
LineBreakScenario ==
    LET s == on_line_break(State(Buffer(AbcDe, FileName, FALSE),
                                 Window(2, 4, 0, 0), Cursor(0, 3, 3)))
    IN  /\ s.buffer.lines = << << "a", "b", "c" >>, << >>, << "d", "e" >> >>
        /\ s.cursor.row = 1
        /\ s.cursor.col = 0

\* C9: line-break at a valid cursor (r, c) puts lines[r][:c] and lines[r][c:]
\* at rows r and r+1, keeps the other lines in order, and leaves the cursor at
\* (r+1, 0) with column hint 0; ["abc","de"] at (0,3) gives ["abc","","de"]
\* and the cursor (1,0).
LineBreakSplitsAtCursor ==
    /\ (pc = "running" /\ LoadedLines) => LineBroken(state, on_line_break(state))
    /\ (pc = "running" /\ before.op = "line-break") => LineBroken(before.state, state)
    /\ LineBreakScenario

\* C9 witness: line-break was typed at the end of the last line
LineBreakAtEndOfBuffer ==
    /\ pc = "running"
    /\ before.op = "line-break"
    /\ before.state.cursor.row = Buffer_bottom(before.state.buffer)
    /\ before.state.cursor.col
          = Len(At(before.state.buffer.lines, before.state.cursor.row))
    /\ before.state.cursor.col > 0
    /\ state.cursor.row = Buffer_bottom(state.buffer)

\* the lines of s with rows r-1 and r replaced by their concatenation
LinesJoinedAt(s, r) ==
    LET lines == s.buffer.lines
    IN  [i \in 1..(Len(lines) - 1) |->
            IF i < r THEN lines[i]
            ELSE IF i = r THEN lines[r] \o lines[r + 1]
            ELSE lines[i + 1]]

\* s2 is s1 after delete-backward at the start of a line, or at (0, 0)
BackspacedAtLineStart(s1, s2) ==
    /\ (s1.cursor.col = 0 /\ s1.cursor.row > 0) =>
          /\ s2.buffer.lines = LinesJoinedAt(s1, s1.cursor.row)
          /\ Len(s2.buffer.lines) = Len(s1.buffer.lines) - 1
          /\ s2.cursor.row = s1.cursor.row - 1
          /\ s2.cursor.col = Len(s1.buffer.lines[s1.cursor.row])
    /\ (s1.cursor.col = 0 /\ s1.cursor.row = 0) => s2 = s1

\* the scenario of delete-backward: ["abc","de"] at (1,0)
BackspaceScenario ==
    LET s == on_backspace(State(Buffer(AbcDe, FileName, FALSE),
                                Window(2, 4, 0, 0), Cursor(1, 0, 0)))
    IN  /\ s.buffer.lines = << << "a", "b", "c", "d", "e" >> >>
        /\ s.cursor.row = 0
        /\ s.cursor.col = 3

\* C10: delete-backward at (r, 0), r > 0, replaces lines r-1 and r by their
\* concatenation and leaves the cursor at (r-1, len(old lines[r-1]));
\* ["abc","de"] at (1,0) gives ["abcde"] and the cursor (0,3); at (0,0) it
\* leaves the whole state, the modified flag included, as it is.
BackspaceJoinsLines ==
    /\ pc = "running" => BackspacedAtLineStart(state, on_backspace(state))
    /\ (pc = "running" /\ before.op = "backspace") =>
          BackspacedAtLineStart(before.state, state)
    /\ BackspaceScenario

\* C10 witness: delete-backward at (1, 0) of the lines "abc", "de"
BackspaceJoinedAbcDe ==
    /\ pc = "running"
    /\ before.op = "backspace"
    /\ before.state.buffer.lines = AbcDe
    /\ before.state.cursor.row = 1
    /\ before.state.cursor.col = 0
    /\ state.buffer.lines = << << "a", "b", "c", "d", "e" >> >>
    /\ state.cursor.row = 0
    /\ state.cursor.col = 3

\* the lines of s with the character at column c of row r taken out
LinesWithoutChar(s, r, c) ==
    LET lines == s.buffer.lines
        line == lines[r + 1]
    IN  [i \in 1..Len(lines) |->
            IF i = r + 1
            THEN [j \in 1..(Len(line) - 1) |-> IF j <= c THEN line[j] ELSE line[j + 1]]
            ELSE lines[i]]

\* s2 is s1 after delete-forward at a cursor that is on a line
DeletedForward(s1, s2) ==
    LET r == s1.cursor.row
        c == s1.cursor.col
        len == Len(s1.buffer.lines[r + 1])
        bottom == Len(s1.buffer.lines) - 1
    IN  /\ c < len => s2.buffer.lines = LinesWithoutChar(s1, r, c)
        /\ (c = len /\ r < bottom) => s2.buffer.lines = LinesJoinedAt(s1, r + 1)
        /\ (c = len /\ r = bottom) =>
              /\ s2.buffer.lines = s1.buffer.lines
              /\ s2.buffer.filename = s1.buffer.filename
              /\ s2.buffer.modified = s1.buffer.modified
        /\ s2.cursor = s1.cursor
        /\ s2.window = s1.window

\* C11: delete-forward takes out the character at (row, col) when there is
\* one, joins the next line onto the current one at the end of a line that is
\* not the last, and at the end of the last line leaves lines, filename and
\* modified as they are; the cursor and the window are unchanged in all cases.
DeleteForwardCases ==
    /\ (pc = "running" /\ ~RowRaises(state.buffer, state.cursor.row)) =>
          DeletedForward(state, on_delete(state))
    /\ (pc = "running" /\ before.op = "delete") => DeletedForward(before.state, state)

\* C11 witness: delete-forward was typed at the final position of a buffer
\* that was not modified, and the buffer still is not
DeletedAtEndOfBuffer ==
    /\ pc = "running"
    /\ before.op = "delete"
    /\ before.state.cursor.row = Buffer_bottom(before.state.buffer)
    /\ before.state.cursor.row > 0
    /\ before.state.cursor.col
          = Len(At(before.state.buffer.lines, before.state.cursor.row))
    /\ ~before.state.buffer.modified
    /\ ~state.buffer.modified

\* C12: the buffer always has at least one line: the empty file is loaded as
\* one empty line, and bottom = len(lines) - 1 >= 0 in every reachable state.
BufferHasALine ==
    /\ from_file(<< >>).lines = << << >> >>
    /\ Alive => Buffer_bottom(state.buffer) >= 0

\* C12 on the files that have a line: no edit takes the last line away
BufferKeepsALine ==
    (Alive /\ LoadedLines) => Buffer_bottom(state.buffer) >= 0

\* the state is the one main built before the loop
AtStartup ==
    state = Startup(original, << state.window.nrows, state.window.ncols >>)

\* C13: every command completes without an error in every reachable state,
\* the states of the empty file included, and the state it returns has the
\* cursor inside the buffer and its row inside the window.
EveryCommandTotal ==
    /\ pc # "error"
    /\ (pc = "running" /\ ~AtStartup) =>
          /\ 0 <= state.cursor.row
          /\ state.cursor.row <= Buffer_bottom(state.buffer)
          /\ 0 <= state.cursor.col
          /\ state.cursor.col <= Len(At(state.buffer.lines, state.cursor.row))
          /\ state.window.row <= state.cursor.row
          /\ state.cursor.row <= Window_bottom(state.window)

\* C13 on the files that have a line: no command raises
NoErrorWithLines ==
    LoadedLines => EveryCommandTotal

\* s2 is s1 after a vertical command: the column hint is kept, and on a new
\* row the column is min(col_hint, len(new line))
MovedVertically(s1, s2) ==
    /\ s2.cursor.col_hint = s1.cursor.col_hint
    /\ s2.cursor.row # s1.cursor.row =>
          s2.cursor.col = Min(s1.cursor.col_hint,
                              Len(s2.buffer.lines[s2.cursor.row + 1]))

\* up at row 0 and down at the last row return the cursor they were given
VerticalAtTheEnds(s) ==
    /\ s.cursor.row = 0 => on_up(s).cursor = s.cursor
    /\ s.cursor.row = Buffer_bottom(s.buffer) => on_down(s).cursor = s.cursor

\* the vertical part of C14, in the states whose cursor is on a line
VerticalKeepsHint ==
    (pc = "running" /\ LoadedLines) =>
        /\ MovedVertically(state, on_up(state))
        /\ MovedVertically(state, on_down(state))
        /\ MovedVertically(state, on_page_up(state))
        /\ MovedVertically(state, on_page_down(state))
        /\ VerticalAtTheEnds(state)

\* s is the result of a horizontal command: the hint is the column
HintIsColumn(s) == s.cursor.col_hint = s.cursor.col

\* C14: up, down, page-up and page-down keep the column hint and put the
\* cursor at min(col_hint, len(new line)); left, right, word-left, word-right,
\* line-start and line-end set the column hint to the new column; up at row 0
\* and down at the last row return the cursor unchanged.
ColumnHint ==
    /\ VerticalKeepsHint
    /\ (pc = "running" /\ LoadedLines) =>
          /\ HintIsColumn(left(state))
          /\ HintIsColumn(right(state))
          /\ HintIsColumn(on_word_left(state))
          /\ HintIsColumn(on_word_right(state))
          /\ HintIsColumn(on_beginning_of_line(state))
          /\ HintIsColumn(on_end_of_line(state))

\* the horizontal part of C14 for the commands that move the cursor or set
\* its column: all but left at (0, 0) and right at the end of the buffer
HintSetWhenMoved ==
    (pc = "running" /\ LoadedLines) =>
        /\ left(state).cursor # state.cursor => HintIsColumn(left(state))
        /\ right(state).cursor # state.cursor => HintIsColumn(right(state))
        /\ HintIsColumn(on_word_left(state))
        /\ HintIsColumn(on_word_right(state))
        /\ HintIsColumn(on_beginning_of_line(state))
        /\ HintIsColumn(on_end_of_line(state))

\* a pass of the loop from which main goes on
LoopStep == pc = "running" /\ pc' = "running"

\* C15: modified is true exactly when the lines were changed by an edit since
\* the load or the last save; an editing key (edits counts them) that changes
\* the lines sets it, save clears it and leaves lines, filename, cursor and
\* window alone, and the other keys, which are the navigation and paging
\* keys, change neither the lines nor the flag.
ModifiedIffUnsavedEdit ==
    /\ [](pc = "running" => state.buffer.modified = dirty)
    /\ [][(LoopStep /\ edits' # edits) =>
             IF state'.buffer.lines # state.buffer.lines
             THEN state'.buffer.modified
             ELSE state'.buffer = state.buffer]_vars
    /\ [][Save =>
             /\ ~state'.buffer.modified
             /\ state'.buffer.lines = state.buffer.lines
             /\ state'.buffer.filename = state.buffer.filename
             /\ state'.cursor = state.cursor
             /\ state'.window = state.window]_vars
    /\ [][(LoopStep /\ edits' = edits /\ ~Save) =>
             state'.buffer = state.buffer]_vars

\* C15 witness: the buffer was edited and then saved, and is not modified
SavedAfterEdit ==
    /\ pc = "running"
    /\ edits >= 1
    /\ disk # original
    /\ disk = SaveBytes(state.buffer)
    /\ ~state.buffer.modified

\* whitespace, word character or punctuation
CharClass(c) == IF isspace(c) THEN "space" ELSE IF isword(c) THEN "word" ELSE "other"

\* the end of the maximal run of characters of the classes cs from column c on
RunEndRight(line, c, cs) ==
    CHOOSE e \in c..Len(line) :
        /\ \A j \in (c + 1)..e : CharClass(line[j]) \in cs
        /\ e < Len(line) => CharClass(line[e + 1]) \notin cs

\* the start of the maximal run of characters of the classes cs before column c
RunEndLeft(line, c, cs) ==
    CHOOSE e \in 0..c :
        /\ \A j \in (e + 1)..c : CharClass(line[j]) \in cs
        /\ e > 0 => CharClass(line[e]) \notin cs

\* past any whitespace, then past one maximal run of one class
WordRightTarget(line, c) ==
    LET w == RunEndRight(line, c, {"space"})
    IN  IF w = Len(line) THEN w ELSE RunEndRight(line, w, {CharClass(line[w + 1])})

WordLeftTarget(line, c) ==
    LET w == RunEndLeft(line, c, {"space"})
    IN  IF w = 0 THEN w ELSE RunEndLeft(line, w, {CharClass(line[w])})

\* s2 is s1 after word-right
MovedWordRight(s1, s2) ==
    LET line == s1.buffer.lines[s1.cursor.row + 1]
        col == s1.cursor.col
    IN  /\ s2.cursor.row = s1.cursor.row
        /\ col <= s2.cursor.col
        /\ s2.cursor.col <= Len(line)
        /\ col < Len(line) => col < s2.cursor.col
        /\ s2.cursor.col = WordRightTarget(line, col)

\* s2 is s1 after word-left
MovedWordLeft(s1, s2) ==
    LET line == s1.buffer.lines[s1.cursor.row + 1]
        col == s1.cursor.col
    IN  /\ s2.cursor.row = s1.cursor.row
        /\ 0 <= s2.cursor.col
        /\ s2.cursor.col <= col
        /\ col > 0 => s2.cursor.col < col
        /\ s2.cursor.col = WordLeftTarget(line, col)

RECURSIVE WordRightTimes(_, _)
WordRightTimes(s, n) == IF n = 0 THEN s ELSE WordRightTimes(on_word_right(s), n - 1)

RECURSIVE WordLeftTimes(_, _)
WordLeftTimes(s, n) == IF n = 0 THEN s ELSE WordLeftTimes(on_word_left(s), n - 1)

\* C16: word-left and word-right keep the row; word-right goes to a column
\* from col to len(line), past col when col < len(line), which is the one
\* after any whitespace and one maximal run of word characters or of
\* punctuation; word-left is the mirror image down to column 0; so len(line)
\* - col word-rights reach the end of the line and col word-lefts column 0.
WordMovesStayOnLine ==
    /\ before.op = "word-right" => MovedWordRight(before.state, state)
    /\ before.op = "word-left" => MovedWordLeft(before.state, state)
    /\ pc = "call_word" =>
          LET len == Len(state.buffer.lines[state.cursor.row + 1])
              col == state.cursor.col
          IN  /\ WordRightTimes(state, len - col).cursor.col = len
              /\ WordLeftTimes(state, col).cursor.col = 0

\* C16 witness: word-right has gone past whitespace and a run of punctuation
\* and stopped before a word character, on the second line of the buffer
WordRightOverSpaceAndRun ==
    /\ before.op = "word-right"
    /\ before.state.cursor.row = 1
    /\ LET line == state.buffer.lines[2]
           col == before.state.cursor.col
       IN  /\ col + 2 <= Len(line)
           /\ line[col + 1] = " "
           /\ line[col + 2] = "."
           /\ state.cursor.col < Len(line)
           /\ line[state.cursor.col + 1] = "a"

\* the window of s is not scrolled past the last page of the buffer
WithinLastPage(s) ==
    /\ s.window.row <= Buffer_bottom(s.buffer) - s.window.nrows + 1
    /\ s.window.row >= 0

\* C17: in every reachable state whose buffer has at least nrows lines, the
\* state after page-down has 0 <= window.row <= bottom - nrows + 1, also after
\* lines were deleted or merged.
PageDownWithinLastPage ==
    (pc = "running" /\ Buffer_len(state.buffer) >= state.window.nrows) =>
        WithinLastPage(on_page_down(state))

\* C17 before any edit: page-down stays within the last page
PageDownWithinLastPageUnedited ==
    (pc = "running" /\ edits = 0
        /\ Buffer_len(state.buffer) >= state.window.nrows) =>
        WithinLastPage(on_page_down(state))

\* C18: a cursor returned by clamp_col is returned equal by clamp_col on the
\* same buffer, and a window returned by horizontal_scroll, Window.up or
\* Window.down is returned equal by the same call with the same cursor.
ClampAndScrollIdempotent ==
    /\ before.op = "clamp_col" =>
          clamp_col(state.cursor, state.buffer) = state.cursor
    /\ before.op = "horizontal_scroll" =>
          horizontal_scroll(state.window, state.cursor) = state.window
    /\ before.op = "Window.up" =>
          Window_up(state.window, state.cursor) = state.window
    /\ before.op = "Window.down" =>
          Window_down(state.window, state.buffer, state.cursor) = state.window

\* C18 witness: Window.up has scrolled the window up to the cursor's row
WindowUpScrolled ==
    /\ before.op = "Window.up"
    /\ state.window.row = before.state.window.row - 1
    /\ state.window.row = state.cursor.row

\* the cursor of s is at a column of its line and clamp_col returns it equal
Reclamped(s) ==
    /\ s.cursor.col <= Len(At(s.buffer.lines, s.cursor.row))
    /\ clamp_col(s.cursor, s.buffer) = s.cursor
    /\ s.cursor.col = Min(s.cursor.col_hint, Len(At(s.buffer.lines, s.cursor.row)))

\* C19: in every reachable state the cursor is valid and clamp_col returns a
\* cursor equal to it: col = min(col_hint, len(lines[row])), also after a
\* delete-forward or delete-backward that made the line longer by a merge.
ReclampIsNoOp ==
    (Alive /\ LoadedLines) => Reclamped(state)

\* C19 before any edit, and right after a delete-backward
ReclampedBeforeEditsAndAfterBackspace ==
    (Alive /\ LoadedLines /\ (edits = 0 \/ before.op = "backspace")) =>
        Reclamped(state)

\* C20: the cursor is never on the last row of the terminal, which render
\* keeps for the status line: cursor.row - window.row <= nrows - 2.
CursorAboveStatusLine ==
    (Alive /\ LoadedLines) =>
        translate(state.window, state.cursor)[1] <= state.window.nrows - 2

====
